---- MODULE Spec2Model ----
(***************************************************************************)
(* Model of consumers/project_consumer_vrtachnik.py: a consumer that tails *)
(* data/project_live.json while a producer appends JSON lines to it, keeps *)
(* a running count and sentiment sum per author and redraws a bar chart    *)
(* after every accepted message.                                           *)
(*                                                                         *)
(* The file is a sequence of text pieces.  A piece is a newline or one     *)
(* half of the text of a line; the producer writes a line either in one    *)
(* write (both halves and the newline) or in two.  Sentiment values are    *)
(* kept in tenths (0.8 is 8), with exact arithmetic.                       *)
(***************************************************************************)
EXTENDS Integers, Sequences, FiniteSets, TLC

\* Number of record lines the producer appends after the consumer starts.
MaxLines == 2
\* Number of those lines it writes in two parts.
MaxParts == 1

NL == "\n"
SP == " "

-----------------------------------------------------------------------------
(* JSON values as json.loads returns them *)

Absent  == [t |-> "absent", s |-> "", n |-> 0]
JStr(x) == [t |-> "str", s |-> x, n |-> 0]
JNum(k) == [t |-> "num", s |-> "", n |-> k]
JArray  == [t |-> "array", s |-> "", n |-> 0]
JNull   == [t |-> "null", s |-> "", n |-> 0]

JDict(a, v) == [type |-> "dict", author |-> a, sentiment |-> v]
JOther(ty)  == [type |-> ty, author |-> Absent, sentiment |-> Absent]
JSONDecodeError == JOther("JSONDecodeError")

\* The texts the producer can write, each in two halves, and the value
\* json.loads gives for the whole text.  The first one is a line of blanks.
Records ==
    { [head |-> SP, tail |-> SP, json |-> JSONDecodeError],
      [head |-> "{\"author\":\"alice\",\"se", tail |-> "ntiment\":0.8}",
       json |-> JDict(JStr("alice"), JNum(8))],
      [head |-> "{\"author\":\"alice\",\"se", tail |-> "ntiment\":0.6}",
       json |-> JDict(JStr("alice"), JNum(6))],
      [head |-> "{\"author\":\"bob\",\"se", tail |-> "ntiment\":0.2}",
       json |-> JDict(JStr("bob"), JNum(2))],
      [head |-> "{", tail |-> "}",
       json |-> JDict(Absent, Absent)],
      [head |-> "{\"sentiment\":", tail |-> "\"bad\"}",
       json |-> JDict(Absent, JStr("bad"))],
      [head |-> "{\"author\":5,\"se", tail |-> "ntiment\":-0.3}",
       json |-> JDict(JNum(5), JNum(-3))],
      [head |-> "{\"author\":", tail |-> "[\"x\"]}",
       json |-> JDict(JArray, Absent)],
      [head |-> "[1,2", tail |-> ",3]",
       json |-> JOther("list")],
      [head |-> "not ", tail |-> "json",
       json |-> JSONDecodeError] }

Text(r) == <<r.head, r.tail>>

-----------------------------------------------------------------------------
(* Reading and parsing *)

Min(S) == CHOOSE x \in S : \A y \in S : x <= y
Max(S) == CHOOSE x \in S : \A y \in S : x >= y

\* SP is a run of blanks
IsWs(c) == c \in {NL, SP}

\* Variant: file.read(), everything that is left in the file.
ReadAll(f, p) == SubSeq(f, p + 1, Len(f))

\* file.readline(): the pieces after position p up to and including the next
\* newline, or up to the end of the file when there is no newline yet.
ReadLine(f, p) ==
    LET nls == {i \in (p + 1)..Len(f) : f[i] = NL}
    IN  SubSeq(f, p + 1, IF nls = {} THEN Len(f) ELSE Min(nls))

\* Variant: `if line:` in place of `if line.strip():`.
StripNone(l) == l

\* str.strip()
Strip(l) ==
    LET keep == {i \in 1..Len(l) : ~IsWs(l[i])}
    IN  IF keep = {} THEN <<>> ELSE SubSeq(l, Min(keep), Max(keep))

\* json.loads(message): surrounding whitespace is ignored; a text that is not
\* the whole text of one record does not decode.
JsonLoads(message) ==
    LET s == Strip(message)
    IN  IF \E r \in Records : Text(r) = s
        THEN (CHOOSE r \in Records : Text(r) = s).json
        ELSE JSONDecodeError

\* Variant: dict.get(key), which gives None for a missing key.
DictGetNone(d, key, default) == IF d[key].t = "absent" THEN JNull ELSE d[key]

\* dict.get(key, default)
DictGet(d, key, default) == IF d[key].t = "absent" THEN default ELSE d[key]

\* Variant: a value that is not a number falls back to the default 0.5.
FloatOrDefault(x) ==
    IF x.t = "num" THEN [err |-> "", val |-> x.n] ELSE [err |-> "", val |-> 5]

\* float(x): numbers pass through unchanged, a numeric string is converted, any
\* other string raises ValueError and any other type raises TypeError.
StrFloat == [s \in {"0.2"} |-> 2]
Float(x) ==
    CASE x.t = "num" -> [err |-> "", val |-> x.n]
      [] x.t = "str" -> IF x.s \in DOMAIN StrFloat
                        THEN [err |-> "", val |-> StrFloat[x.s]]
                        ELSE [err |-> "ValueError", val |-> 0]
      [] OTHER       -> [err |-> "TypeError", val |-> 0]

\* Lines 90-93 of process_message: the exception raised, or the author and
\* sentiment extracted.
Parse(message) ==
    LET message_dict == JsonLoads(message)
        a == DictGet(message_dict, "author", JStr("unknown"))
        v == Float(DictGet(message_dict, "sentiment", JNum(5)))
    IN  IF message_dict.type = "JSONDecodeError"
        THEN [res |-> "raise", author |-> Absent, sentiment |-> 0]
        ELSE IF message_dict.type # "dict"
        THEN [res |-> "notdict", author |-> Absent, sentiment |-> 0]
        ELSE IF v.err # ""
        THEN [res |-> "raise", author |-> Absent, sentiment |-> 0]
        ELSE [res |-> "ok", author |-> a, sentiment |-> v.val]

\* Keys of a dict must be hashable: lists and dicts are not.
Hashable(x) == x.t \notin {"array", "object"}

-----------------------------------------------------------------------------
(* author_stats: a defaultdict, kept in insertion order *)

Has(stats, a) == \E i \in 1..Len(stats) : stats[i].author = a
IndexOf(stats, a) == CHOOSE i \in 1..Len(stats) : stats[i].author = a
Keys(stats) == {stats[i].author : i \in 1..Len(stats)}

\* Variant: author_stats[a] = {"count": 0, "sentiment_sum": 0.0} on every
\* access, also when the key is there.
DefaultGetFresh(stats, a) ==
    IF Has(stats, a)
    THEN [stats EXCEPT ![IndexOf(stats, a)] =
             [author |-> a, count |-> 0, sentiment_sum |-> 0]]
    ELSE Append(stats, [author |-> a, count |-> 0, sentiment_sum |-> 0])

\* author_stats[a]: a missing key is created with count 0 and sum 0.0.
DefaultGet(stats, a) ==
    IF Has(stats, a) THEN stats
    ELSE Append(stats, [author |-> a, count |-> 0, sentiment_sum |-> 0])

\* Variant: the count of every group is incremented.
IncCountAll(stats, a) == [k \in 1..Len(stats) |-> [stats[k] EXCEPT !.count = @ + 1]]

\* stats["count"] += 1
IncCount(stats, a) == [stats EXCEPT ![IndexOf(stats, a)].count = @ + 1]

\* Variant: the value is clamped to [0, 1] before it is added.
AddSumClamped(stats, a, v) ==
    [stats EXCEPT ![IndexOf(stats, a)].sentiment_sum =
        @ + (IF v < 0 THEN 0 ELSE IF v > 10 THEN 10 ELSE v)]

\* stats["sentiment_sum"] += sentiment
AddSum(stats, a, v) == [stats EXCEPT ![IndexOf(stats, a)].sentiment_sum = @ + v]

-----------------------------------------------------------------------------
(* update_chart *)

Abs(x) == IF x < 0 THEN -x ELSE x

RECURSIVE GCD(_, _)
GCD(a, b) == IF b = 0 THEN a ELSE GCD(b, a % b)

\* a / b as a fraction in lowest terms
Div(a, b) == LET g == GCD(Abs(a), b) IN <<a \div g, b \div g>>

\* Variant: the chart always has a bar for "unknown".
ChartAuthorsAndUnknown(stats) ==
    [i \in 1..Len(stats) |-> stats[i].author]
        \o (IF Has(stats, JStr("unknown")) THEN <<>> ELSE <<JStr("unknown")>>)

\* list(author_stats.keys())
ChartAuthors(stats) == [i \in 1..Len(stats) |-> stats[i].author]

\* The reads author_stats[a] for a in authors, each through the defaultdict.
RECURSIVE StatsAfterReads(_, _)
StatsAfterReads(stats, authors) ==
    IF authors = <<>> THEN stats
    ELSE StatsAfterReads(DefaultGet(stats, Head(authors)), Tail(authors))

\* sentiment_sum / count if count else 0.5
Average(e) == IF e.count # 0 THEN Div(e.sentiment_sum, e.count) ELSE <<5, 1>>

\* One bar per author with its height and its "n=" annotation.
Bars(stats) ==
    LET authors == ChartAuthors(stats)
        read == StatsAfterReads(stats, authors)
    IN  [i \in 1..Len(authors) |->
            LET e == read[IndexOf(read, authors[i])]
            IN  [author |-> authors[i], height |-> Average(e), n |-> e.count]]

-----------------------------------------------------------------------------
(* State *)

VARIABLES
    fileExists,    \* DATA_FILE.exists()
    file,          \* content of DATA_FILE
    pending,       \* rest of a record the producer has written in part
    written,       \* record lines the producer has started
    parts,         \* record lines the producer has written in two parts
    pc,            \* where the consumer is in main / process_message
    fh,            \* the file object of main: "none", "open", "closed"
    pos,           \* read position of the file object
    openLen,       \* length of the file when open() returned
    seekLen,       \* length of the file when seek() returned
    line,          \* main's line / process_message's message
    author,        \* process_message's author
    sentiment,     \* process_message's sentiment
    author_stats,  \* the module-level defaultdict
    chart,         \* bars on the axes
    log,           \* logger calls and update_chart calls, in order
    delivered,     \* lines passed to process_message, with their offsets
    exitCode       \* exit status, -1 while the process runs

vars == <<fileExists, file, pending, written, parts, pc, fh, pos, openLen,
          seekLen, line, author, sentiment, author_stats, chart, log, delivered,
          exitCode>>

producerVars == <<fileExists, file, pending, written, parts>>
localVars == <<line, author, sentiment>>

\* The file when the consumer starts: not there yet, holding one earlier
\* line, or holding an earlier line and the first half of the next one.
Old == CHOOSE r \in Records : r.json = JDict(JStr("alice"), JNum(8))
StartFiles ==
    { [exists |-> FALSE, file |-> <<>>, pending |-> <<>>],
      [exists |-> TRUE, file |-> Text(Old) \o <<NL>>, pending |-> <<>>],
      [exists |-> TRUE, file |-> Text(Old) \o <<NL, Old.head>>,
       pending |-> <<Old.tail, NL>>] }

Init ==
    /\ \E c \in StartFiles :
          /\ fileExists = c.exists
          /\ file = c.file
          /\ pending = c.pending
    /\ written = 0
    /\ parts = 0
    /\ pc = "Validating"
    /\ fh = "none"
    /\ pos = 0
    /\ openLen = 0
    /\ seekLen = 0
    /\ line = <<>>
    /\ author = Absent
    /\ sentiment = 0
    /\ author_stats = <<>>
    /\ chart = <<>>
    /\ log = <<>>
    /\ delivered = <<>>
    /\ exitCode = -1

Entry(level) == [level |-> level, at |-> Len(delivered)]

-----------------------------------------------------------------------------
(* The producer, a separate process that appends to DATA_FILE *)

ProducerCreate ==
    /\ ~fileExists
    /\ fileExists' = TRUE
    /\ UNCHANGED <<file, pending, written, parts>>

ProducerWriteLine ==
    /\ fileExists /\ pending = <<>> /\ written < MaxLines
    /\ \E r \in Records : file' = file \o Text(r) \o <<NL>>
    /\ written' = written + 1
    /\ UNCHANGED <<fileExists, pending, parts>>

ProducerWritePart ==
    /\ fileExists /\ pending = <<>> /\ written < MaxLines /\ parts < MaxParts
    /\ \E r \in Records :
          /\ file' = Append(file, r.head)
          /\ pending' = <<r.tail, NL>>
    /\ written' = written + 1
    /\ parts' = parts + 1
    /\ UNCHANGED fileExists

ProducerWriteRest ==
    /\ fileExists /\ pending # <<>>
    /\ file' = file \o pending
    /\ pending' = <<>>
    /\ UNCHANGED <<fileExists, written, parts>>

\* The consumer looks at the file only when it checks, opens, seeks and reads;
\* a write that falls between two other steps of the consumer has the effect
\* of the same write just before the next of these, where it is taken.
Producer ==
    /\ pc \in {"Validating", "Opening", "Seeking", "Tailing", "Exited"}
    /\ \/ ProducerCreate
       \/ ProducerWriteLine
       \/ ProducerWritePart
       \/ ProducerWriteRest
    /\ UNCHANGED <<pc, fh, pos, openLen, seekLen, line, author, sentiment,
                   author_stats, chart, log, delivered, exitCode>>

-----------------------------------------------------------------------------
(* main *)

\* Variant: main goes on to open() without the check for the file.
ValidateNoCheck ==
    /\ pc = "Validating"
    /\ pc' = "Opening"
    /\ UNCHANGED <<fh, pos, openLen, seekLen, author_stats, chart, log, delivered,
                   exitCode>>
    /\ UNCHANGED localVars /\ UNCHANGED producerVars

\* if not DATA_FILE.exists(): logger.error(...); sys.exit(1)
Validate ==
    /\ pc = "Validating"
    /\ IF fileExists
       THEN /\ pc' = "Opening"
            /\ UNCHANGED <<log, exitCode>>
       ELSE /\ pc' = "Exited"
            /\ log' = Append(log, Entry("error"))
            /\ exitCode' = 1
    /\ UNCHANGED <<fh, pos, openLen, seekLen, author_stats, chart, delivered>>
    /\ UNCHANGED localVars /\ UNCHANGED producerVars

\* open(DATA_FILE, "r")
Open ==
    /\ pc = "Opening"
    /\ fileExists
    /\ fh' = "open"
    /\ pos' = 0
    /\ openLen' = Len(file)
    /\ pc' = "Seeking"
    /\ UNCHANGED <<seekLen, author_stats, chart, log, delivered, exitCode>>
    /\ UNCHANGED localVars /\ UNCHANGED producerVars

\* Variant: the file is read from its start.
SeekStart(f) == 0

\* file.seek(0, os.SEEK_END)
SeekEnd(f) == Len(f)

Seek ==
    /\ pc = "Seeking"
    /\ pos' = SeekEnd(file)
    /\ seekLen' = Len(file)
    /\ pc' = "Tailing"
    /\ UNCHANGED <<fh, openLen, author_stats, chart, log, delivered, exitCode>>
    /\ UNCHANGED localVars /\ UNCHANGED producerVars

\* line = file.readline(); if line.strip(): process_message(line)
\* else: time.sleep(0.5)
Read ==
    /\ pc = "Tailing"
    /\ line' = ReadLine(file, pos)
    /\ pos' = pos + Len(line')
    /\ IF Strip(line') # <<>>
       THEN /\ pc' = "Parsing"
            /\ delivered' = Append(delivered, [start |-> pos, text |-> line'])
       ELSE /\ pc' = "Sleeping"
            /\ UNCHANGED delivered
    /\ UNCHANGED <<fh, openLen, seekLen, author, sentiment, author_stats, chart,
                   log, exitCode>>
    /\ UNCHANGED producerVars

\* time.sleep(0.5) returns
Sleep ==
    /\ pc = "Sleeping"
    /\ pc' = "Tailing"
    /\ UNCHANGED <<fh, pos, openLen, seekLen, author_stats, chart, log, delivered,
                   exitCode>>
    /\ UNCHANGED localVars /\ UNCHANGED producerVars

-----------------------------------------------------------------------------
(* process_message *)

\* Variant: an error is not handled inside process_message and ends main.
ParseMessageFatal ==
    /\ pc = "Parsing"
    /\ LET p == Parse(line)
       IN  IF p.res = "ok"
           THEN /\ author' = p.author
                /\ sentiment' = p.sentiment
                /\ pc' = "Lookup"
                /\ UNCHANGED <<log, exitCode>>
           ELSE /\ log' = Append(log, Entry("error"))
                /\ pc' = "Exited"
                /\ exitCode' = 1
                /\ UNCHANGED <<author, sentiment>>
    /\ UNCHANGED <<fh, pos, openLen, seekLen, line, author_stats, chart, delivered>>
    /\ UNCHANGED producerVars

\* Lines 90-93 and the two handlers that log an error (103, 105).
ParseMessage ==
    /\ pc = "Parsing"
    /\ LET p == Parse(line)
       IN  IF p.res = "ok"
           THEN /\ author' = p.author
                /\ sentiment' = p.sentiment
                /\ pc' = "Lookup"
                /\ UNCHANGED log
           ELSE /\ log' = Append(log, Entry("error"))
                /\ pc' = "Tailing"
                /\ UNCHANGED <<author, sentiment>>
    /\ UNCHANGED <<fh, pos, openLen, seekLen, line, author_stats, chart, delivered,
                   exitCode>>
    /\ UNCHANGED producerVars

\* stats = author_stats[author]; an unhashable author raises TypeError
Lookup ==
    /\ pc = "Lookup"
    /\ IF Hashable(author)
       THEN /\ author_stats' = DefaultGet(author_stats, author)
            /\ pc' = "IncCount"
            /\ UNCHANGED log
       ELSE /\ log' = Append(log, Entry("error"))
            /\ pc' = "Tailing"
            /\ UNCHANGED author_stats
    /\ UNCHANGED <<fh, pos, openLen, seekLen, chart, delivered, exitCode>>
    /\ UNCHANGED localVars /\ UNCHANGED producerVars

\* stats["count"] += 1
Count ==
    /\ pc = "IncCount"
    /\ author_stats' = IncCount(author_stats, author)
    /\ pc' = "AddSum"
    /\ UNCHANGED <<fh, pos, openLen, seekLen, chart, log, delivered, exitCode>>
    /\ UNCHANGED localVars /\ UNCHANGED producerVars

\* stats["sentiment_sum"] += sentiment
Sum ==
    /\ pc = "AddSum"
    /\ author_stats' = AddSum(author_stats, author, sentiment)
    /\ pc' = "LogInfo"
    /\ UNCHANGED <<fh, pos, openLen, seekLen, chart, log, delivered, exitCode>>
    /\ UNCHANGED localVars /\ UNCHANGED producerVars

\* Variant: process_message returns after logging, without update_chart().
LogInfoReturn ==
    /\ pc = "LogInfo"
    /\ log' = Append(log, Entry("info"))
    /\ pc' = "Tailing"
    /\ UNCHANGED <<fh, pos, openLen, seekLen, author_stats, chart, delivered, exitCode>>
    /\ UNCHANGED localVars /\ UNCHANGED producerVars

\* logger.info(f"Processed message from {author}, sentiment={sentiment}")
LogInfo ==
    /\ pc = "LogInfo"
    /\ log' = Append(log, Entry("info"))
    /\ pc' = "Render"
    /\ UNCHANGED <<fh, pos, openLen, seekLen, author_stats, chart, delivered, exitCode>>
    /\ UNCHANGED localVars /\ UNCHANGED producerVars

\* Variant: update_chart() that empties author_stats once the bars are drawn.
RenderReset ==
    /\ pc = "Render"
    /\ author_stats' = <<>>
    /\ \E raised \in BOOLEAN :
          IF raised
          THEN /\ chart' = <<>>
               /\ log' = log \o <<Entry("chart"), Entry("error")>>
          ELSE /\ chart' = Bars(author_stats)
               /\ log' = Append(log, Entry("chart"))
    /\ pc' = "Tailing"
    /\ UNCHANGED <<fh, pos, openLen, seekLen, delivered, exitCode>>
    /\ UNCHANGED localVars /\ UNCHANGED producerVars

\* update_chart(): the axes are cleared, the stats are read and the bars are
\* drawn.  The drawing calls belong to the plotting library and can raise; the
\* handler at line 104 then logs the error.
Render ==
    /\ pc = "Render"
    /\ author_stats' = StatsAfterReads(author_stats, ChartAuthors(author_stats))
    /\ \E raised \in BOOLEAN :
          IF raised
          THEN /\ chart' = <<>>
               /\ log' = log \o <<Entry("chart"), Entry("error")>>
          ELSE /\ chart' = Bars(author_stats)
               /\ log' = Append(log, Entry("chart"))
    /\ pc' = "Tailing"
    /\ UNCHANGED <<fh, pos, openLen, seekLen, delivered, exitCode>>
    /\ UNCHANGED localVars /\ UNCHANGED producerVars

Consumer ==
    \/ Validate \/ Open \/ Seek \/ Read \/ Sleep
    \/ ParseMessage \/ Lookup \/ Count \/ Sum \/ LogInfo \/ Render

Next == Producer \/ Consumer

Spec == Init /\ [][Next]_vars

-----------------------------------------------------------------------------
(* Cancellation *)

\* The positions inside the try block of main (lines 118-128), where a
\* KeyboardInterrupt is caught at line 129.
InTry == {"Opening", "Seeking", "Tailing", "Sleeping", "Parsing", "Lookup",
          "IncCount", "AddSum", "LogInfo", "Render"}

\* Ctrl-C: KeyboardInterrupt is raised at whatever line the consumer is about
\* to run.  It is not an Exception, so the handler at line 104 lets it pass;
\* it leaves the with block, which closes the file, and is caught at line 129.
Interrupt ==
    /\ pc \in InTry
    /\ pc' = "Stopped"
    /\ fh' = IF fh = "open" THEN "closed" ELSE fh
    /\ UNCHANGED <<pos, openLen, seekLen, author_stats, chart, log, delivered,
                   exitCode>>
    /\ UNCHANGED localVars /\ UNCHANGED producerVars

\* Variant: the finally block does not show the chart.
FinalizeNoShow ==
    /\ pc = "Stopped"
    /\ log' = log \o <<Entry("stopped"), Entry("closed")>>
    /\ pc' = "Finalized"
    /\ UNCHANGED <<fh, pos, openLen, seekLen, author_stats, chart, delivered,
                   exitCode>>
    /\ UNCHANGED localVars /\ UNCHANGED producerVars

\* logger.info("Consumer stopped by user."); finally: plt.ioff(); plt.show();
\* logger.info("Consumer closed.")
Finalize ==
    /\ pc = "Stopped"
    /\ log' = log \o <<Entry("stopped"), Entry("show"), Entry("closed")>>
    /\ pc' = "Finalized"
    /\ UNCHANGED <<fh, pos, openLen, seekLen, author_stats, chart, delivered,
                   exitCode>>
    /\ UNCHANGED localVars /\ UNCHANGED producerVars

\* main returns and the interpreter exits with status 0.
Return ==
    /\ pc = "Finalized"
    /\ pc' = "Done"
    /\ exitCode' = 0
    /\ UNCHANGED <<fh, pos, openLen, seekLen, author_stats, chart, log,
                   delivered>>
    /\ UNCHANGED localVars /\ UNCHANGED producerVars

NextCancel == Producer \/ Consumer \/ Interrupt \/ Finalize \/ Return

SpecCancel == Init /\ [][NextCancel]_vars

-----------------------------------------------------------------------------
(* A feed of whole lines from several authors *)

MaxFeed == 3

\* The lines of the feed: two of alice, one of bob, one without author and
\* sentiment, and one that is not JSON.
FeedRecords ==
    {r \in Records :
        r.json \in {JDict(JStr("alice"), JNum(8)), JDict(JStr("bob"), JNum(2)),
                    JDict(JStr("alice"), JNum(6)), JDict(Absent, Absent)}
        \/ r.head = "not "}

\* The consumer starts on a file that holds one earlier line.
InitFeed ==
    /\ fileExists = TRUE
    /\ file = Text(Old) \o <<NL>>
    /\ pending = <<>>
    /\ written = 0
    /\ parts = 0
    /\ pc = "Validating"
    /\ fh = "none"
    /\ pos = 0
    /\ openLen = 0
    /\ seekLen = 0
    /\ line = <<>>
    /\ author = Absent
    /\ sentiment = 0
    /\ author_stats = <<>>
    /\ chart = <<>>
    /\ log = <<>>
    /\ delivered = <<>>
    /\ exitCode = -1

\* The producer appends one line of the feed, newline included, in one write.
ProducerFeed ==
    /\ pc \in {"Validating", "Opening", "Seeking", "Tailing", "Exited"}
    /\ written < MaxFeed
    /\ \E r \in FeedRecords : file' = file \o Text(r) \o <<NL>>
    /\ written' = written + 1
    /\ UNCHANGED <<fileExists, pending, parts>>
    /\ UNCHANGED <<pc, fh, pos, openLen, seekLen, line, author, sentiment,
                   author_stats, chart, log, delivered, exitCode>>

NextFeed == ProducerFeed \/ Consumer

SpecFeed == InitFeed /\ [][NextFeed]_vars

\* What lines 90-98 of process_message do to author_stats for one message.
Apply(stats, message) ==
    LET p == Parse(message)
    IN  IF p.res = "ok" /\ Hashable(p.author)
        THEN AddSum(IncCount(DefaultGet(stats, p.author), p.author),
                    p.author, p.sentiment)
        ELSE stats

RECURSIVE ApplyAll(_, _)
ApplyAll(stats, messages) ==
    IF messages = <<>> THEN stats
    ELSE ApplyAll(Apply(stats, Head(messages)), Tail(messages))

-----------------------------------------------------------------------------
(* Scheduling *)

\* The consumer is a running process: whenever it has a next step (the sleep
\* ends, the next statement runs) it takes one.  The producer may stop.
FairSpec == Init /\ [][Next]_vars /\ WF_vars(Consumer)

-----------------------------------------------------------------------------
(* Properties *)

Last(q) == q[Len(q)]

\* process_message is not running
Boundary == pc \in {"Tailing", "Sleeping"}

\* Line i has been passed to process_message and both its count and its sum
\* have been applied, if it is applied at all.
Settled(i) == i < Len(delivered) \/ pc \in {"LogInfo", "Render", "Tailing", "Sleeping"}

\* Line i is one that process_message accepts.
Accepted(i) ==
    LET p == Parse(delivered[i].text) IN p.res = "ok" /\ Hashable(p.author)

\* The accepted lines for author a whose update has been applied.
UpdatesTo(a) ==
    {i \in 1..Len(delivered) :
        Accepted(i) /\ Settled(i) /\ Parse(delivered[i].text).author = a}

RECURSIVE SumOver(_)
SumOver(I) ==
    IF I = {} THEN 0
    ELSE LET i == Min(I) IN Parse(delivered[i].text).sentiment + SumOver(I \ {i})

UpdatedAuthors ==
    {Parse(delivered[i].text).author :
        i \in {j \in 1..Len(delivered) : Accepted(j) /\ Settled(j)}}

\* C1 (additivity): once the N-th accepted update to a group has been applied,
\* the group's count is N and its sentiment_sum is the sum of the N values,
\* whatever the values, and a bar on the chart shows sum / count with n = count.
C1_Additivity ==
    pc \notin {"IncCount", "AddSum"} =>
        /\ \A a \in UpdatedAuthors :
              /\ Has(author_stats, a)
              /\ author_stats[IndexOf(author_stats, a)].count
                    = Cardinality(UpdatesTo(a))
              /\ author_stats[IndexOf(author_stats, a)].sentiment_sum
                    = SumOver(UpdatesTo(a))
        /\ Boundary =>
              \A b \in 1..Len(chart) :
                 LET e == author_stats[IndexOf(author_stats, chart[b].author)]
                 IN  /\ Has(author_stats, chart[b].author)
                     /\ chart[b].n = e.count
                     /\ chart[b].height[2] > 0
                     /\ chart[b].height[1] * e.count
                           = chart[b].height[2] * e.sentiment_sum

\* Two updates below 0 have been applied to one group and are on the chart.
C1_Witness ==
    /\ Boundary
    /\ \E b \in 1..Len(chart) :
          /\ chart[b].n = 2
          /\ chart[b].height = <<-3, 1>>
          /\ Cardinality(UpdatesTo(chart[b].author)) = 2

\* C2 (tail isolation): every line passed to process_message starts at or
\* after the end the file had when it was opened, so that nothing that was in
\* the file before the open is processed.
C2_TailIsolation ==
    /\ \A i \in 1..Len(delivered) : delivered[i].start >= openLen
    /\ fh = "open" /\ pc # "Seeking" => pos >= openLen

\* The file held a line at the open, and a line appended later was processed.
C2_Witness ==
    /\ openLen > 0
    /\ Len(delivered) = 1
    /\ file[openLen] = NL
    /\ Last(delivered[1].text) = NL
    /\ Boundary

\* The records whose whole text is the line l, blanks around it ignored.
Whole(l) == {r \in Records : Text(r) = Strip(l)}

\* C3 (partial lines): the tail loop passes a line to process_message only
\* when it is complete, that is, when it ends with its newline; the first part
\* of a record that is still being written is left in the file.
C3_PartialLineNotDelivered ==
    \A i \in 1..Len(delivered) : Last(delivered[i].text) = NL

\* A line that is not JSON, is JSON but not an object, or is an object whose
\* sentiment is there and is not a number.
RejectedLine(l) ==
    \/ Whole(l) = {}
    \/ \E r \in Whole(l) :
          \/ r.json.type # "dict"
          \/ r.json.sentiment = JStr("bad")

\* C4 (rejection): process_message, given a line that is not JSON, not an
\* object, or has a sentiment that is not a number, returns with author_stats
\* and the chart as they were, having logged one error and drawn nothing.
C4_Rejection ==
    [][pc = "Parsing" /\ RejectedLine(line) =>
          /\ pc' = "Tailing"
          /\ author_stats' = author_stats
          /\ chart' = chart
          /\ log' = Append(log, [level |-> "error", at |-> Len(delivered)])]_vars

\* A line that is not JSON was rejected, a group was then created, and an
\* object with a sentiment that is not a number has just been rejected.
C4_Witness ==
    /\ pc = "Tailing"
    /\ Len(author_stats) = 1
    /\ Len(chart) = 1
    /\ Len(delivered) = 3
    /\ Whole(delivered[1].text) = {}
    /\ \E r \in Whole(delivered[3].text) : r.json.sentiment = JStr("bad")
    /\ Last(log) = [level |-> "error", at |-> 3]

\* A line that is the whole text of an object whose sentiment is a number or
\* is missing and whose author can be a key.
ValidLine(l) ==
    \E r \in Whole(l) :
       /\ r.json.type = "dict"
       /\ r.json.sentiment.t \in {"absent", "num"}
       /\ r.json.author.t \in {"absent", "str", "num"}

\* The step logs an error from inside process_message.
LogsError ==
    /\ pc \in {"Parsing", "Lookup", "Render"}
    /\ Len(log') > Len(log)
    /\ Last(log').level = "error"

\* C5 (errors do not stop aggregation): a step of process_message that logs an
\* error returns to the tail loop with the process still running, the loop is
\* never left once the file is open, and every valid line read by the loop,
\* however many rejected lines came before it, is logged as processed and has
\* its group in author_stats.
C5_ErrorsDoNotStop ==
    /\ [][LogsError => pc' = "Tailing" /\ exitCode' = -1]_vars
    /\ [](fh = "open" => pc # "Exited" /\ exitCode = -1)
    /\ [](Boundary =>
            \A i \in 1..Len(delivered) :
               ValidLine(delivered[i].text) =>
                  /\ \E k \in 1..Len(log) : log[k] = [level |-> "info", at |-> i]
                  /\ \E r \in Whole(delivered[i].text) :
                        Has(author_stats,
                            IF r.json.author = Absent THEN JStr("unknown")
                            ELSE r.json.author))

\* Two lines were rejected and the valid line that followed them was applied.
C5_Witness ==
    /\ Boundary
    /\ Len(delivered) = 3
    /\ RejectedLine(delivered[1].text)
    /\ RejectedLine(delivered[2].text)
    /\ ValidLine(delivered[3].text)
    /\ Len(author_stats) = 1
    /\ author_stats[1].count = 1

\* The update_chart calls made for line i.
Charts(i) == {k \in 1..Len(log) : log[k] = [level |-> "chart", at |-> i]}

StatsOf(a) == author_stats[IndexOf(author_stats, a)]

\* C6 (render after every accepted update, and only then): every accepted
\* line has exactly one update_chart call once process_message has returned
\* and none before; a rejected line has none; update_chart is called only
\* from the last step of process_message, when the count and the sum of the
\* line are both in author_stats, and what it draws is that state; a read that
\* finds no data calls nothing.
C6_RenderAfterAccepted ==
    /\ [](\A i \in 1..Len(delivered) :
            Cardinality(Charts(i)) =
               IF Accepted(i) /\ (i < Len(delivered) \/ Boundary) THEN 1 ELSE 0)
    /\ [](Charts(0) = {})
    /\ [](pc = "Render" =>
            /\ Accepted(Len(delivered))
            /\ Has(author_stats, author)
            /\ StatsOf(author).count = Cardinality(UpdatesTo(author))
            /\ StatsOf(author).sentiment_sum = SumOver(UpdatesTo(author)))
    /\ [][(\E k \in 1..Len(log') : k > Len(log) /\ log'[k].level = "chart") =>
             /\ pc = "Render"
             /\ chart' \in {<<>>, Bars(author_stats)}]_vars
    /\ [][pc = "Tailing" /\ pc' = "Sleeping" => log' = log /\ chart' = chart]_vars

\* Of three lines the first was rejected and the other two were accepted;
\* there are two update_chart calls, one for each accepted line.
C6_Witness ==
    /\ Boundary
    /\ Len(delivered) = 3
    /\ ~Accepted(1) /\ Accepted(2) /\ Accepted(3)
    /\ Charts(1) = {} /\ Charts(2) # {} /\ Charts(3) # {}
    /\ Cardinality({k \in 1..Len(log) : log[k].level = "chart"}) = 2
    /\ Len(chart) = 2

\* Line i is accepted and its count has been applied.
Counted(i) ==
    /\ Accepted(i)
    /\ i < Len(delivered)
          \/ pc \in {"AddSum", "LogInfo", "Render", "Tailing", "Sleeping"}

\* C7 (keys are the updated groups): except between the creation of a group
\* and the increment that follows it, the keys of author_stats are exactly the
\* authors of the accepted lines, each key is there once, and every count is
\* at least 1; update_chart's reads add no key.
C7_KeysAreUpdatedGroups ==
    pc # "IncCount" =>
        /\ Keys(author_stats) =
              {Parse(delivered[i].text).author :
                  i \in {j \in 1..Len(delivered) : Counted(j)}}
        /\ Cardinality(Keys(author_stats)) = Len(author_stats)
        /\ \A k \in 1..Len(author_stats) : author_stats[k].count >= 1

\* Two groups exist, both drawn by update_chart, and a line was rejected.
C7_Witness ==
    /\ Boundary
    /\ Len(author_stats) = 2
    /\ Len(chart) = 2
    /\ \E i \in 1..Len(delivered) : ~Accepted(i)

\* The valid lines read so far that have no author key.
NoAuthorLines ==
    {i \in 1..Len(delivered) :
        /\ ValidLine(delivered[i].text)
        /\ \E r \in Whole(delivered[i].text) : r.json.author = Absent}

\* The value a valid line gives: its sentiment, or 0.5 when it has none.
ValueOfLine(l) ==
    LET r == CHOOSE x \in Whole(l) : TRUE
    IN  IF r.json.sentiment = Absent THEN 5 ELSE r.json.sentiment.n

RECURSIVE ValueSum(_)
ValueSum(I) ==
    IF I = {} THEN 0
    ELSE LET i == Min(I) IN ValueOfLine(delivered[i].text) + ValueSum(I \ {i})

\* C8 (defaults): while process_message handles an object with no author key
\* its author is "unknown", and with no sentiment key its sentiment is 0.5;
\* when it has returned, the group "unknown" has one update for each valid
\* line without an author, so each line {} adds one update ("unknown", 0.5).
C8_UnknownDefault ==
    /\ pc \in {"Lookup", "IncCount", "AddSum", "LogInfo", "Render"} =>
          \A r \in Whole(line) :
             /\ r.json.author = Absent => author = JStr("unknown")
             /\ r.json.sentiment = Absent => sentiment = 5
    /\ Boundary =>
          IF NoAuthorLines = {}
          THEN ~Has(author_stats, JStr("unknown"))
          ELSE /\ Has(author_stats, JStr("unknown"))
               /\ StatsOf(JStr("unknown")).count = Cardinality(NoAuthorLines)
               /\ StatsOf(JStr("unknown")).sentiment_sum = ValueSum(NoAuthorLines)

\* The line {} was read twice: "unknown" has count 2 and sum 1.0.
C8_Witness ==
    /\ Boundary
    /\ Len(delivered) = 2
    /\ \A i \in 1..2 : Strip(delivered[i].text) = <<"{", "}">>
    /\ author_stats = <<[author |-> JStr("unknown"), count |-> 2,
                         sentiment_sum |-> 10]>>
    /\ chart = <<[author |-> JStr("unknown"), height |-> <<5, 1>>, n |-> 2]>>

\* C9 (author that is not a string): an object whose author is there and is
\* not a string is counted under "unknown", so that every key of author_stats
\* is a string.
C9_NonStringAuthorIsUnknown ==
    /\ \A k \in Keys(author_stats) : k.t = "str"
    /\ pc \in {"Lookup", "IncCount", "AddSum", "LogInfo", "Render"} =>
          \A r \in Whole(line) :
             r.json.author.t \notin {"absent", "str"} => author = JStr("unknown")

\* C10 (startup failure): when the file is not there at the check, main exits
\* at once with status 1; it has then opened nothing, read nothing, passed no
\* line to process_message, drawn nothing and left author_stats empty, and it
\* stays so even if the file appears later.
C10_StartupFailure ==
    /\ [][pc = "Validating" /\ ~fileExists /\ pc' # pc =>
             pc' = "Exited" /\ exitCode' = 1]_vars
    /\ [][pc = "Exited" => pc' = "Exited" /\ exitCode' = exitCode]_vars
    /\ [](pc = "Exited" =>
            /\ exitCode = 1
            /\ fh = "none" /\ pos = 0
            /\ delivered = <<>>
            /\ author_stats = <<>>
            /\ chart = <<>>
            /\ log = <<[level |-> "error", at |-> 0]>>)

\* main has exited with status 1 and the producer has since created the file
\* and written to it.
C10_Witness ==
    /\ pc = "Exited"
    /\ exitCode = 1
    /\ fileExists
    /\ Len(file) > 0

\* main has caught the interrupt
Cancelled == pc \in {"Stopped", "Finalized", "Done"}

\* The plt.show() calls of the finally block.
Shows == {k \in 1..Len(log) : log[k].level = "show"}

\* C11 (clean cancellation): an interrupt that arrives inside the try block
\* takes main to its handler with the file closed; from there the only steps
\* are the finalize step and then the return with exit status 0; the chart is
\* shown exactly once, before the exit; and once the interrupt is caught no
\* line is read or applied and the chart is not redrawn.
C11_CleanCancellation ==
    /\ [](Cancelled => fh # "open")
    /\ [](pc = "Stopped" => Shows = {} /\ exitCode = -1)
    /\ [](pc = "Finalized" => Cardinality(Shows) = 1 /\ exitCode = -1)
    /\ [](pc = "Done" => Cardinality(Shows) = 1 /\ exitCode = 0)
    /\ [](exitCode = 0 => pc = "Done")
    /\ [](~Cancelled => Shows = {})
    /\ [][pc = "Stopped" /\ pc' # pc => pc' = "Finalized"]_vars
    /\ [][pc = "Finalized" /\ pc' # pc => pc' = "Done"]_vars
    /\ [][pc = "Done" => pc' = "Done"]_vars
    /\ [][Cancelled =>
             /\ delivered' = delivered
             /\ author_stats' = author_stats
             /\ chart' = chart
             /\ pos' = pos
             /\ fh' = fh]_vars

\* The interrupt arrived while the loop was waiting for data with a group in
\* author_stats; main has shown the chart, closed the file and exited with 0.
C11_Witness ==
    /\ pc = "Done"
    /\ exitCode = 0
    /\ fh = "closed"
    /\ Len(author_stats) = 1
    /\ Len(chart) = 1
    /\ Len(log) >= 3
    /\ log[Len(log) - 1].level = "show"

\* The accepted lines for author a among those passed to process_message.
AcceptedFor(a) ==
    {i \in 1..Len(delivered) :
        Accepted(i) /\ Parse(delivered[i].text).author = a}

\* C12 (cancellation at an iteration boundary): when main has caught the
\* interrupt, every group holds whole updates only (its count and its sum
\* are those of all its accepted lines, or of all but the line that was being
\* processed, which is then not applied at all), and every line whose update
\* is in author_stats has had its update_chart call.
C12_CancelAtBoundary ==
    Cancelled =>
        \A k \in 1..Len(author_stats) :
           LET a == author_stats[k].author
               all == AcceptedFor(a)
               before == all \ {Len(delivered)}
           IN  \/ /\ author_stats[k].count = Cardinality(all)
                  /\ author_stats[k].sentiment_sum = SumOver(all)
                  /\ \A i \in all : Charts(i) # {}
               \/ /\ author_stats[k].count = Cardinality(before)
                  /\ author_stats[k].sentiment_sum = SumOver(before)
                  /\ \A i \in before : Charts(i) # {}

\* Position p of the file is the start of a line.
AtLineStart(p) == p = 0 \/ file[p] = NL

\* The text t cut after each newline.
RECURSIVE LinesOf(_)
LinesOf(t) ==
    IF t = <<>> THEN <<>>
    ELSE LET nls == {i \in 1..Len(t) : t[i] = NL}
             n == IF nls = {} THEN Len(t) ELSE Min(nls)
         IN  <<SubSeq(t, 1, n)>> \o LinesOf(SubSeq(t, n + 1, Len(t)))

IsBlank(l) == \A i \in 1..Len(l) : IsWs(l[i])
NonBlank(ls) == SelectSeq(ls, LAMBDA l : ~IsBlank(l))

\* Everything in the file from the seek position on was written a whole line
\* at a time.
WholeWrites == parts = 0 /\ pending = <<>> /\ AtLineStart(seekLen)

\* C13 (each line once, in order): the read position never moves backward;
\* and while the producer has written whole lines only, the position is at
\* the start of a line and the lines passed to process_message, in the order
\* they were passed, are exactly the non-blank lines of the file between the
\* position the tailer started from and the read position, each at the
\* offset it has in the file.
C13_EachLineOnceInOrder ==
    /\ [][pos' >= pos]_vars
    /\ [](WholeWrites /\ fh = "open" /\ pc # "Seeking" =>
            /\ pos >= seekLen
            /\ AtLineStart(pos)
            /\ [i \in 1..Len(delivered) |-> delivered[i].text]
                  = NonBlank(LinesOf(SubSeq(file, seekLen + 1, pos)))
            /\ \A i \in 1..Len(delivered) :
                  LET d == delivered[i]
                  IN  /\ d.text = SubSeq(file, d.start + 1, d.start + Len(d.text))
                      /\ d.start >= seekLen
                      /\ i > 1 => d.start >= delivered[i - 1].start
                                                + Len(delivered[i - 1].text))

\* Two different lines, each written whole, have been read up to the end of
\* the file: they were passed one after the other, in the order written.
C13_Witness ==
    /\ WholeWrites
    /\ Boundary
    /\ seekLen > 0
    /\ pos = Len(file)
    /\ Len(delivered) = 2
    /\ delivered[1].text # delivered[2].text
    /\ delivered[2].start = delivered[1].start + 3

\* C14 (monotonic state): in every step each group stays in author_stats at
\* its place, with a count that does not decrease; a group changes only by
\* count + 1 at line 97 and then by sum + sentiment at line 98, both for the
\* author of the line being processed, and line 98 always follows line 97;
\* a new group is added at the end, empty, only by line 96.
C14_Monotonic ==
    /\ [][/\ Len(author_stats') >= Len(author_stats)
          /\ \A k \in 1..Len(author_stats) :
                LET e == author_stats[k]
                    f == author_stats'[k]
                IN  /\ f.author = e.author
                    /\ f.count >= e.count
                    /\ \/ f = e
                       \/ /\ pc = "IncCount" /\ e.author = author
                          /\ f.count = e.count + 1
                          /\ f.sentiment_sum = e.sentiment_sum
                       \/ /\ pc = "AddSum" /\ e.author = author
                          /\ f.count = e.count
                          /\ f.sentiment_sum = e.sentiment_sum + sentiment
          /\ Len(author_stats') > Len(author_stats) =>
                /\ pc = "Lookup"
                /\ author_stats' = Append(author_stats,
                      [author |-> author, count |-> 0, sentiment_sum |-> 0])]_vars
    /\ [][pc = "IncCount" /\ pc' # pc =>
             /\ pc' = "AddSum"
             /\ StatsOf(author)'.count = StatsOf(author).count + 1]_vars
    /\ [][pc = "AddSum" /\ pc' # pc =>
             /\ pc' = "LogInfo"
             /\ StatsOf(author)'.sentiment_sum
                   = StatsOf(author).sentiment_sum + sentiment]_vars

\* A group that was already there has just received its second update.
C14_Witness ==
    /\ pc = "LogInfo"
    /\ Len(delivered) = 3
    /\ Len(author_stats) = 1
    /\ author_stats[1].count = 2
    /\ author_stats[1].sentiment_sum = 14
    /\ Len(chart) = 1 /\ chart[1].n = 1

\* C15 (idempotent snapshotting): update_chart leaves author_stats as it was,
\* the same groups with the same counts and sums, whether or not the drawing
\* succeeds; reading the state once more for a second drawing gives the same
\* state and the same bars, and a drawing that succeeds shows that state.
C15_SnapshotIdempotent ==
    /\ [][pc = "Render" =>
             /\ author_stats' = author_stats
             /\ chart' # <<>> => chart' = Bars(author_stats')]_vars
    /\ [](LET read == StatsAfterReads(author_stats, ChartAuthors(author_stats))
          IN  /\ read = author_stats
              /\ StatsAfterReads(read, ChartAuthors(read)) = read
              /\ Bars(read) = Bars(author_stats))

\* The chart has just been drawn from two groups, which are still there.
C15_Witness ==
    /\ pc = "Tailing"
    /\ Len(author_stats) = 2
    /\ log # <<>> /\ log[Len(log)].level = "chart"
    /\ chart = Bars(author_stats)
    /\ \A k \in 1..2 : author_stats[k].count = 1

\* The delivered lines that process_message accepts for author a, in order.
RECURSIVE OwnLines(_, _)
OwnLines(a, i) ==
    IF i > Len(delivered) THEN <<>>
    ELSE (IF Accepted(i) /\ Parse(delivered[i].text).author = a
          THEN <<delivered[i].text>> ELSE <<>>) \o OwnLines(a, i + 1)

\* C16 (groups are independent): a step of process_message for a line of one
\* author leaves the count and the sum of every other group as they were, and
\* between two messages every group holds exactly what processing that
\* author's lines alone, from an empty author_stats, would give, whatever
\* lines of other authors came in between.
C16_GroupsIndependent ==
    /\ [][\A k \in 1..Len(author_stats) :
             author_stats[k].author # author =>
                /\ k <= Len(author_stats')
                /\ author_stats'[k] = author_stats[k]]_vars
    /\ [](Boundary =>
            \A k \in 1..Len(author_stats) :
               <<author_stats[k]>>
                  = ApplyAll(<<>>, OwnLines(author_stats[k].author, 1)))

\* alice 0.8, bob 0.2, alice 0.6 have been processed in this order: alice has
\* count 2 and average 0.7, bob has count 1 and average 0.2.
C16_Witness ==
    /\ Boundary
    /\ [i \in 1..Len(delivered) |-> JsonLoads(delivered[i].text)]
          = <<JDict(JStr("alice"), JNum(8)), JDict(JStr("bob"), JNum(2)),
              JDict(JStr("alice"), JNum(6))>>
    /\ author_stats
          = <<[author |-> JStr("alice"), count |-> 2, sentiment_sum |-> 14],
              [author |-> JStr("bob"), count |-> 1, sentiment_sum |-> 2]>>
    /\ Len(chart) = 2
    /\ chart[1].n = 2 /\ chart[1].height = <<7, 1>>
    /\ chart[2].n = 1 /\ chart[2].height = <<2, 1>>

\* C17 (no data yet): when readline() returns nothing or only whitespace,
\* the loop goes to its sleep without calling process_message: nothing is
\* logged, author_stats and the chart stay as they are, the file stays open
\* and main does not exit; when the sleep is over the loop reads again.
C17_NoDataYet ==
    /\ [][pc = "Tailing" /\ pc' # "Tailing" /\ IsBlank(line') =>
             /\ pc' = "Sleeping"
             /\ delivered' = delivered
             /\ log' = log
             /\ author_stats' = author_stats
             /\ chart' = chart
             /\ fh' = fh /\ exitCode' = exitCode]_vars
    /\ [][pc = "Sleeping" =>
             /\ pc' = "Tailing"
             /\ pos' = pos
             /\ delivered' = delivered
             /\ log' = log
             /\ author_stats' = author_stats
             /\ chart' = chart
             /\ fh' = fh /\ exitCode' = exitCode]_vars
    /\ [](pc = "Sleeping" => IsBlank(line) /\ fh = "open")

\* A line of blanks has been read after an accepted line: the loop sleeps,
\* the group and its bar are as the accepted line left them.
C17_Witness ==
    /\ pc = "Sleeping"
    /\ line # <<>> /\ IsBlank(line)
    /\ Len(delivered) = 1
    /\ Len(author_stats) = 1 /\ author_stats[1].count = 1
    /\ Len(chart) = 1
    /\ log = <<[level |-> "info", at |-> 1], [level |-> "chart", at |-> 1]>>

\* An error has been logged for line i.
ErrorFor(i) == \E k \in 1..Len(log) : log[k] = [level |-> "error", at |-> i]

\* The delivered lines for which no error has been logged, in order.
RECURSIVE LinesWithoutError(_)
LinesWithoutError(i) ==
    IF i > Len(delivered) THEN <<>>
    ELSE (IF ErrorFor(i) THEN <<>> ELSE <<delivered[i].text>>)
            \o LinesWithoutError(i + 1)

\* C18 (a reported line leaves the state unchanged): between two messages,
\* author_stats holds the updates of exactly the lines for which no error was
\* logged; a line that was reported as an error is in no count and no sum.
C18_ErrorLeavesStateUnchanged ==
    Boundary => author_stats = ApplyAll(<<>>, LinesWithoutError(1))

\* The longest file: two lines at the start and MaxLines written ones.
Positions == 0..(3 * (MaxLines + 2))

\* A complete valid line starts at position p of the file, after the place
\* the consumer started to read from.
CompleteValidAt(p) ==
    /\ fh = "open" /\ pc # "Seeking"
    /\ p >= seekLen /\ p < Len(file)
    /\ AtLineStart(p)
    /\ Last(ReadLine(file, p)) = NL
    /\ ValidLine(ReadLine(file, p))

\* The line at position p has been passed to process_message, applied and
\* logged, and update_chart has been called for it.
AppliedAt(p) ==
    \E i \in 1..Len(delivered) :
       /\ delivered[i].start = p
       /\ delivered[i].text = ReadLine(file, p)
       /\ \E k \in 1..Len(log) : log[k] = [level |-> "info", at |-> i]
       /\ Charts(i) # {}
       /\ Has(author_stats, Parse(delivered[i].text).author)

\* C19 (liveness of the tail loop): with the consumer scheduled fairly, from
\* some point on every complete valid line in the file after the consumer's
\* start position has been applied to its group and has had its update_chart
\* call (the producer writes finitely many lines, and a line once applied
\* stays applied); and once the file is open the loop is never left.
C19_TailLiveness ==
    /\ <>[](\A p \in Positions : CompleteValidAt(p) => AppliedAt(p))
    /\ [][fh = "open" =>
             fh' = "open" /\ pc' \in InTry /\ exitCode' = -1]_vars

====
